---- MODULE Spec2Model ----
(***************************************************************************)
(* One Session of backend/src/api.ts: setup(), send(), sendError(),        *)
(* receive(), runCode() and teardown() as a state machine.                 *)
(*                                                                         *)
(* Granularity.  Node runs one handler at a time; a handler runs from the  *)
(* event that wakes it to its next `await`.  Every action below is one     *)
(* such run-to-await segment.  An `await` on a promise that is already     *)
(* resolved resumes in a microtask, before any further I/O event: those    *)
(* continuations are queued in `micro`, and every other action waits for   *)
(* the queue to drain.                                                     *)
(***************************************************************************)
EXTENDS Integers, Sequences, FiniteSets, TLC

\* ------------------------------------------------------------------ bounds
\* "message" events delivered in a run of Spec
MaxMsgs == 1
\* "message" events delivered in a run of SpecTwo
MaxOverlap == 2

\* ------------------------------------------------------------ JS values
\* A string is a sequence of chunks; the empty string is <<>>.
Undef == [t |-> "undefined", v |-> <<>>]
Null == [t |-> "null", v |-> <<>>]
Num == [t |-> "number", v |-> <<>>]
Obj == [t |-> "object", v |-> <<>>]
Str(s) == [t |-> "string", v |-> s]

\* typeof x
TypeOf(x) == IF x.t = "null" THEN "object" ELSE x.t

\* x in a boolean position (Num stands for a non-zero number)
Truthy(x) ==
  CASE x.t = "undefined" -> FALSE
    [] x.t = "null" -> FALSE
    [] x.t = "string" -> x.v # <<>>
    [] OTHER -> TRUE

\* ------------------------------------------------------ language descriptor
LangConfig(d, l, ls, sl, gh, co, re, ce, su) ==
  [daemon |-> d, lsp |-> l, lspSetup |-> ls, mainHasSlash |-> sl,
   ghciConfig |-> gh, compile |-> co, repl |-> re, createEmpty |-> ce,
   suffix |-> su]

\* langs[this.lang]: a language with a language server and its setup
\* command, one with a daemon, a compile step and its entry point in a
\* subdirectory, and one with the ghci-config hack
Langs ==
  { LangConfig(FALSE, TRUE, TRUE, FALSE, FALSE, FALSE, TRUE, TRUE, FALSE),
    LangConfig(TRUE, FALSE, FALSE, TRUE, FALSE, TRUE, FALSE, FALSE, TRUE),
    LangConfig(FALSE, FALSE, FALSE, FALSE, TRUE, FALSE, TRUE, FALSE, FALSE) }

Template == <<"template">>
Suffix == <<"suffix">>

\* ------------------------------------------------------------ inbound frames
\* The value JSON.parse yields: a primitive has no properties, so reading
\* .event/.input/.code from it gives undefined.
NullMsg == [t |-> "null", event |-> Undef, input |-> Undef, code |-> Undef]
PrimMsg == [t |-> "number", event |-> Undef, input |-> Undef, code |-> Undef]
ObjMsg(e, i, c) == [t |-> "object", event |-> e, input |-> i, code |-> c]

\* A frame is its text: one that does not parse, or the JSON text of a value.
Garbage == [parses |-> FALSE, val |-> NullMsg]
Json(m) == [parses |-> TRUE, val |-> m]

JSONParse(raw) == IF raw.parses THEN [threw |-> FALSE, val |-> raw.val]
                  ELSE [threw |-> TRUE, val |-> NullMsg]

Ev(name) == Str(<<name>>)

InboundFrames ==
  {Garbage, Json(NullMsg), Json(PrimMsg),
   Json(ObjMsg(Undef, Undef, Undef)),
   Json(ObjMsg(Ev("bogus"), Obj, Str(<<"code">>)))}
  \cup {Json(ObjMsg(Ev("terminalInput"), i, Undef)) :
          i \in {Undef, Num, Str(<<"keys">>)}}
  \cup {Json(ObjMsg(Ev("runCode"), Undef, c)) :
          c \in {Undef, Null, Num, Obj, Str(<<>>), Str(<<"code">>)}}
  \cup {Json(ObjMsg(Ev("lspInput"), i, Undef)) :
          i \in {Undef, Null, Num, Str(<<"rpc">>), Obj}}

\* ------------------------------------------------------------------ state
VARIABLES
  config,        \* this.config
  setupPc,       \* where setup() is suspended
  subscribed,    \* ws.on("message"/"close"/"error") registered
  tearingDown,   \* this.tearingDown
  uidInfo,       \* this.uidInfo is non-null
  td,            \* teardown() invocations suspended at each await
  handlers,      \* runCode() invocations: 0 is setup's, k the k-th frame's
  term,          \* this.term: 0 for null, else an index into procs
  procs,         \* every terminal record { pty, live } created so far
  daemon,        \* this.daemon: "null", "up", "exited"
  lsp,           \* this.lsp: "null", "up", "exited"
  micro,         \* microtask queue
  lastSent,      \* the frame most recently handed to ws.send
  mainFile,      \* the entry-point file in the session home directory
  dotGhci,       \* the .ghci file exists
  wsClosed,      \* the transport has emitted "close"
  msgCount,      \* "message" events delivered to receive()
  msgBudget,     \* "message" events the run delivers at most
  wsErrored,     \* the transport has emitted "error"
  leases,        \* borrowUser() resolutions
  cleanupIssued, \* privilegedTeardown commands handed to run()
  releaseCalls,  \* uidInfo.returnUID() invocations
  wsTerminated,  \* ws.terminate() invocations
  termWrites,    \* pty.write() invocations
  lspWrites,     \* lsp.writer.write() invocations
  inbox,         \* the frame of the "message" event being dispatched
  earlyReturns,  \* the functions that have returned on this.tearingDown
  failedFrames   \* serviceFailed frames handed to ws.send, per service

vars ==
  <<config, setupPc, subscribed, tearingDown, uidInfo, td, handlers, term,
    procs, daemon, lsp, micro, lastSent, mainFile, dotGhci, wsClosed, msgCount,
    msgBudget, wsErrored, leases, cleanupIssued, releaseCalls, wsTerminated,
    termWrites, lspWrites, inbox, earlyReturns, failedFrames>>

\* An outbound frame.  Beside its content it records, for the properties,
\* this.term and this.tearingDown when it is handed to ws.send, and how many
\* "message" events had been delivered by then.
Frame(event, service, proc, slot) ==
  [event |-> event, service |-> service, proc |-> proc, slot |-> slot,
   during |-> msgCount, td |-> FALSE]

TerminalClear == Frame("terminalClear", "", 0, 0)
\* the terminalOutput frame of sendError(), carrying the error text
Diagnostic == Frame("terminalOutput", "error", 0, 0)
\* a terminalOutput frame of process p; slot is this.term when it is sent
TerminalOutput(p) == Frame("terminalOutput", "", p, term)
LspStarted == Frame("lspStarted", "", 0, 0)
LspOutput == Frame("lspOutput", "", 0, 0)
ServiceLog(svc) == Frame("serviceLog", svc, 0, 0)
ServiceFailed(svc) == Frame("serviceFailed", svc, 0, 0)

\* nothing sent yet
NoneSent == [event |-> "none", service |-> "", proc |-> 0, slot |-> 0,
             during |-> 0, td |-> FALSE]

HandlerIds == 0..msgBudget

IdleHandler ==
  [pc |-> "idle", code |-> <<>>, cmdline |-> "", outcome |-> "none",
   cleared |-> FALSE]

\* a runCode() invocation that has returned: its locals are gone
Finished(outcome) ==
  [pc |-> "done", code |-> <<>>, cmdline |-> "", outcome |-> outcome,
   cleared |-> FALSE]

NoFile == [by |-> -1, code |-> <<>>]

\* the session when the constructor returns: setup() is awaiting borrowUser
InitWith(langs, budget) ==
  /\ config \in langs
  /\ setupPc = "borrowUser"
  /\ subscribed = FALSE
  /\ tearingDown = FALSE
  /\ uidInfo = FALSE
  /\ td = [grace |-> 0, cleanup |-> 0, release |-> 0]
  /\ handlers = [h \in 0..budget |-> IdleHandler]
  /\ term = 0
  /\ procs = <<>>
  /\ daemon = "null"
  /\ lsp = "null"
  /\ micro = <<>>
  /\ lastSent = NoneSent
  /\ mainFile = NoFile
  /\ dotGhci = FALSE
  /\ wsClosed = FALSE
  /\ msgCount = 0
  /\ msgBudget = budget
  /\ wsErrored = FALSE
  /\ leases = 0
  /\ cleanupIssued = 0
  /\ releaseCalls = 0
  /\ wsTerminated = 0
  /\ termWrites = 0
  /\ lspWrites = 0
  /\ inbox = <<>>
  /\ earlyReturns = {}
  /\ failedFrames = [daemon |-> 0, lsp |-> 0]

Init == InitWith(Langs, MaxMsgs)

\* no handler is running and no continuation is queued: the event loop
\* takes the next I/O event
Idle == micro = <<>> /\ inbox = <<>>

\* ------------------------------------------------- send() and teardown()
\* The fields of the session that send() and teardown() read and write.
This ==
  [tearingDown |-> tearingDown, td |-> td, lastSent |-> lastSent,
   earlyReturns |-> earlyReturns]

Commit(s) ==
  /\ tearingDown' = s.tearingDown
  /\ td' = s.td
  /\ lastSent' = s.lastSent
  /\ earlyReturns' = s.earlyReturns

\* teardown() without its guard: every invocation starts a release sequence.
teardown_unguarded(s) ==
  [s EXCEPT !.tearingDown = TRUE, !.td.grace = @ + 1]

\* teardown(), up to its first await (the grace timer)
teardown(s) ==
  IF s.tearingDown
    THEN [s EXCEPT !.earlyReturns = @ \cup {"teardown"}]
    ELSE [s EXCEPT !.tearingDown = TRUE, !.td.grace = @ + 1]

\* ws.send throws inside send(): only when send() gets as far as ws.send
SendThrows(s, fails) == ~s.tearingDown /\ fails

\* send() without the tearingDown check
send_unguarded(s, frame, fails) ==
  IF fails THEN teardown(s)
  ELSE [s EXCEPT !.lastSent = [frame EXCEPT !.td = s.tearingDown]]

\* send(msg); `fails` says whether ws.send throws
send(s, frame, fails) ==
  IF s.tearingDown THEN [s EXCEPT !.earlyReturns = @ \cup {"send"}]
  ELSE IF fails THEN teardown(s)
  ELSE [s EXCEPT !.lastSent = [frame EXCEPT !.td = s.tearingDown]]

\* how many frames one send() hands to ws.send without it throwing
Handed(s, fails) == IF s.tearingDown \/ fails THEN 0 ELSE 1

\* sendError(err) up to its first await: the terminalClear frame.  The
\* second frame follows in a microtask, unless the first ws.send threw: then
\* send() is awaiting teardown() and the second send() finds tearingDown set.
sendError(s, fails) == send(s, TerminalClear, fails)

SendErrorRest(s, fails) == IF SendThrows(s, fails) THEN <<>> ELSE <<"sendError">>

\* ---------------------------------------------------------------- runCode()
\* lines 276-286: the command line of the new terminal
Cmdline(cfg, code) ==
  IF Truthy(code)
    THEN (IF cfg.compile THEN "compileRun" ELSE "run")
    ELSE IF cfg.repl THEN "repl" ELSE "echo"

\* lines 287-292: the text written to the entry-point file
CodeToWrite(cfg, code) ==
  LET c == IF code.t = "undefined"
             THEN (IF cfg.createEmpty THEN <<>> ELSE Template)
             ELSE code.v
  IN IF c # <<>> /\ cfg.suffix THEN c \o Suffix ELSE c

\* runCode() that starts the daemon again when it finds that it has exited
RunCodeFrame_restartDaemon ==
  /\ daemon' = IF daemon = "exited" THEN "up" ELSE daemon
  /\ UNCHANGED <<config, subscribed, uidInfo, lsp, wsClosed, msgBudget,
                 wsErrored, leases, cleanupIssued, releaseCalls, wsTerminated,
                 termWrites, lspWrites, failedFrames>>

\* the variables runCode() never touches
RunCodeFrame ==
  UNCHANGED <<config, subscribed, uidInfo, daemon, lsp, wsClosed, msgBudget,
              wsErrored, leases, cleanupIssued, releaseCalls, wsTerminated,
              termWrites, lspWrites, failedFrames>>

\* runCode() that leaves the terminal of the client as it is: line 275 is
\* missing
RunCodeBegin_noClear(h, code, fails) ==
  /\ procs' = IF term = 0 THEN procs
              ELSE [procs EXCEPT ![term].live = FALSE, ![term].killed = TRUE]
  /\ term' = 0
  /\ UNCHANGED <<tearingDown, td, lastSent, earlyReturns>>
  /\ handlers' = [handlers EXCEPT ![h] =
       [pc |-> IF config.mainHasSlash THEN "mkdir" ELSE "write",
        code |-> CodeToWrite(config, code),
        cmdline |-> Cmdline(config, code),
        outcome |-> "none",
        cleared |-> FALSE]]

\* runCode(code) from its call to its first await (lines 253-309): the
\* previous terminal is signalled and marked dead, terminalClear is sent
\* (not awaited), and the first deploy command is handed to run().  The
\* handler remembers, for the properties, whether its terminalClear was
\* handed to ws.send.
RunCodeBegin(h, code, fails) ==
  /\ procs' = IF term = 0 THEN procs
              ELSE [procs EXCEPT ![term].live = FALSE, ![term].killed = TRUE]
  /\ term' = 0
  /\ Commit(send(This, TerminalClear, fails))
  /\ handlers' = [handlers EXCEPT ![h] =
       [pc |-> IF config.mainHasSlash THEN "mkdir" ELSE "write",
        code |-> CodeToWrite(config, code),
        cmdline |-> Cmdline(config, code),
        outcome |-> "none",
        cleared |-> Handed(This, fails) = 1]]

\* the promise of runCode() resolves: setup() is awaiting that of handler 0
Resolved(h) == IF h = 0 THEN <<"setup">> ELSE <<>>

\* the catch of runCode() written like the catch of setup(): it reports the
\* error and then tears the session down
RunCodeCatch_teardown(h, fails) ==
  /\ handlers' = [handlers EXCEPT ![h] = Finished("failed")]
  /\ Commit(teardown(sendError(This, fails)))
  /\ micro' = micro \o SendErrorRest(This, fails) \o Resolved(h)
  /\ UNCHANGED <<term, procs>>

\* catch (lines 338-342): sendError(err), not awaited
RunCodeCatch(h, fails) ==
  /\ handlers' = [handlers EXCEPT ![h] = Finished("failed")]
  /\ Commit(sendError(This, fails))
  /\ micro' = micro \o SendErrorRest(This, fails) \o Resolved(h)
  /\ UNCHANGED <<term, procs>>

\* lines 322-337: pty.spawn and this.term = term
SpawnTerm(h) ==
  /\ procs' = Append(procs, [live |-> TRUE, killed |-> FALSE, by |-> h,
                             cmdline |-> handlers[h].cmdline,
                             cleared |-> handlers[h].cleared])
  /\ term' = Len(procs) + 1
  /\ handlers' = [handlers EXCEPT ![h] = Finished("ok")]
  /\ micro' = micro \o Resolved(h)
  /\ UNCHANGED <<tearingDown, td, lastSent, earlyReturns>>

\* the mkdir command of lines 294-300 ends
RunCodeMkdirDone(h, ok, fails) ==
  /\ Idle
  /\ handlers[h].pc = "mkdir"
  /\ IF ok
       THEN /\ handlers' = [handlers EXCEPT ![h].pc = "write"]
            /\ UNCHANGED <<term, procs, micro, tearingDown, td, lastSent,
                           earlyReturns>>
       ELSE RunCodeCatch(h, fails)
  /\ RunCodeFrame
  /\ UNCHANGED <<setupPc, mainFile, dotGhci, msgCount, inbox>>

\* the write of lines 302-309 ends
RunCodeWriteDone(h, ok, spawnOk, fails) ==
  /\ Idle
  /\ handlers[h].pc = "write"
  /\ mainFile' = IF ok THEN [by |-> h, code |-> handlers[h].code]
                 ELSE mainFile
  /\ IF ~ok THEN RunCodeCatch(h, fails)
     ELSE IF config.ghciConfig
       THEN /\ handlers' = [handlers EXCEPT ![h].pc = "ghci"]
            /\ UNCHANGED <<term, procs, micro, tearingDown, td, lastSent,
                           earlyReturns>>
     ELSE IF spawnOk THEN SpawnTerm(h)
     ELSE RunCodeCatch(h, fails)
  /\ RunCodeFrame
  /\ UNCHANGED <<setupPc, dotGhci, msgCount, inbox>>

\* the .ghci command of lines 310-321 ends
RunCodeGhciDone(h, ok, spawnOk, fails) ==
  /\ Idle
  /\ handlers[h].pc = "ghci"
  /\ dotGhci' = IF ok THEN handlers[h].code # <<>> ELSE dotGhci
  /\ IF ok /\ spawnOk THEN SpawnTerm(h) ELSE RunCodeCatch(h, fails)
  /\ RunCodeFrame
  /\ UNCHANGED <<setupPc, mainFile, msgCount, inbox>>

\* the second half of sendError(), lines 186-192
MicroSendError(fails) ==
  /\ micro # <<>> /\ Head(micro) = "sendError"
  /\ micro' = Tail(micro)
  /\ Commit(send(This, Diagnostic, fails))
  /\ RunCodeFrame
  /\ UNCHANGED <<setupPc, handlers, term, procs, mainFile, dotGhci, msgCount,
                 inbox>>

\* ------------------------------------------------------------------ setup()
\* the variables setup() never touches
SetupFrame ==
  UNCHANGED <<config, wsClosed, msgCount, msgBudget, wsErrored, cleanupIssued,
              releaseCalls, wsTerminated, termWrites, lspWrites, inbox,
              mainFile, dotGhci, failedFrames>>

\* catch (lines 164-169): sendError(err) is not awaited, so it runs to its
\* first await (one send) and teardown() is called before it resumes.
SetupCatch(fails) ==
  /\ setupPc' = "failed"
  /\ Commit(teardown(sendError(This, fails)))
  /\ micro' = micro \o SendErrorRest(This, fails)
  /\ UNCHANGED <<subscribed, uidInfo, handlers, term, procs, daemon, lsp,
                 leases>>
  /\ SetupFrame

\* borrowUser() settles (lines 86-89)
SetupBorrowDone(ok, fails) ==
  /\ Idle
  /\ setupPc = "borrowUser"
  /\ IF ok
       THEN /\ uidInfo' = TRUE
            /\ leases' = leases + 1
            /\ setupPc' = "privilegedSetup"
            /\ UNCHANGED <<subscribed, tearingDown, td, lastSent, earlyReturns,
                           handlers, term, procs, daemon, lsp, micro>>
            /\ SetupFrame
       ELSE SetupCatch(fails)

\* the privilegedSetup command ends; on success runCode() is called (line 90)
SetupPrivilegedSetupDone(ok, fails) ==
  /\ Idle
  /\ setupPc = "privilegedSetup"
  /\ IF ok
       THEN /\ setupPc' = "runCode"
            /\ RunCodeBegin(0, Undef, fails)
            /\ UNCHANGED <<subscribed, uidInfo, daemon, lsp, leases, micro>>
            /\ SetupFrame
       ELSE SetupCatch(fails)

\* lines 127-163: the language server is started and the listeners of the
\* transport are registered.
SetupFinish(fails) ==
  /\ lsp' = IF config.lsp THEN "up" ELSE lsp
  /\ IF config.lsp THEN Commit(send(This, LspStarted, fails))
     ELSE UNCHANGED <<tearingDown, td, lastSent, earlyReturns>>
  /\ subscribed' = TRUE
  /\ setupPc' = "ready"

\* setup() resumes after `await this.runCode()` (lines 91-126)
MicroSetupResume(fails) ==
  /\ micro # <<>> /\ Head(micro) = "setup"
  /\ micro' = Tail(micro)
  /\ daemon' = IF config.daemon THEN "up" ELSE daemon
  /\ IF config.lsp /\ config.lspSetup
       THEN /\ setupPc' = "lspSetup"
            /\ UNCHANGED <<lsp, subscribed, tearingDown, td, lastSent, earlyReturns>>
       ELSE SetupFinish(fails)
  /\ UNCHANGED <<uidInfo, handlers, term, procs, leases>>
  /\ SetupFrame

\* the lspSetup command of line 125 ends
SetupLspSetupDone(ok, fails) ==
  /\ Idle
  /\ setupPc = "lspSetup"
  /\ IF ok
       THEN /\ SetupFinish(fails)
            /\ UNCHANGED <<uidInfo, handlers, term, procs, daemon, leases,
                           micro>>
            /\ SetupFrame
       ELSE SetupCatch(fails)

\* --------------------------------------------------------------- teardown()
\* the variables the rest of teardown() never touches
TeardownFrame ==
  UNCHANGED <<config, setupPc, subscribed, tearingDown, uidInfo, handlers,
              term, procs, daemon, lsp, micro, lastSent, mainFile, dotGhci,
              wsClosed, msgCount, msgBudget, wsErrored, leases,
              termWrites, lspWrites, inbox, earlyReturns, failedFrames>>

\* teardown() with lines 354 and 355 swapped: the identity is released
\* when the grace timer fires, before the cleanup command has run
TeardownGraceElapsed_releaseFirst ==
  /\ Idle
  /\ td.grace > 0
  /\ IF uidInfo
       THEN /\ cleanupIssued' = cleanupIssued + 1
            /\ releaseCalls' = releaseCalls + 1
            /\ td' = [td EXCEPT !.grace = @ - 1, !.cleanup = @ + 1]
       ELSE /\ td' = [td EXCEPT !.grace = @ - 1]
            /\ UNCHANGED <<cleanupIssued, releaseCalls>>
  /\ UNCHANGED wsTerminated
  /\ TeardownFrame

\* The grace timer fires (line 354).  this.privilegedTeardown() reads
\* this.context, hence this.uidInfo!.uid: with uidInfo null that throws and
\* the catch of teardown() ends the invocation.
TeardownGraceElapsed ==
  /\ Idle
  /\ td.grace > 0
  /\ IF uidInfo
       THEN /\ cleanupIssued' = cleanupIssued + 1
            /\ td' = [td EXCEPT !.grace = @ - 1, !.cleanup = @ + 1]
       ELSE /\ td' = [td EXCEPT !.grace = @ - 1]
            /\ UNCHANGED cleanupIssued
  /\ UNCHANGED <<releaseCalls, wsTerminated>>
  /\ TeardownFrame

\* The privilegedTeardown command ends; on success returnUID() is called
\* (lines 51-53, 355), on failure the catch ends the invocation.
TeardownCleanupDone(ok) ==
  /\ Idle
  /\ td.cleanup > 0
  /\ IF ok
       THEN /\ td' = [td EXCEPT !.cleanup = @ - 1, !.release = @ + 1]
            /\ releaseCalls' = IF uidInfo THEN releaseCalls + 1
                               ELSE releaseCalls
       ELSE /\ td' = [td EXCEPT !.cleanup = @ - 1]
            /\ UNCHANGED releaseCalls
  /\ UNCHANGED <<cleanupIssued, wsTerminated>>
  /\ TeardownFrame

\* returnUID() resolves; ws.terminate() (line 356)
TeardownReleaseDone ==
  /\ Idle
  /\ td.release > 0
  /\ td' = [td EXCEPT !.release = @ - 1]
  /\ wsTerminated' = wsTerminated + 1
  /\ UNCHANGED <<cleanupIssued, releaseCalls>>
  /\ TeardownFrame

\* ---------------------------------------------------------------- receive()
\* msg in a boolean position (PrimMsg stands for a non-zero number)
MsgTruthy(msg) == msg.t # "null"

\* lines 204-244: what receive() does with the frame
dispatch(raw, termIsNull, lspIsNull) ==
  LET r == JSONParse(raw)
      msg == r.val
      tag == IF MsgTruthy(msg) THEN msg.event ELSE Null
  IN IF r.threw THEN "parseError"
     ELSE CASE tag = Ev("terminalInput") ->
                 IF TypeOf(msg.input) # "string" THEN "badMessage"
                 ELSE IF termIsNull THEN "ignored" ELSE "termWrite"
            [] tag = Ev("runCode") ->
                 IF TypeOf(msg.code) # "string" THEN "badMessage"
                 ELSE "runCode"
            [] tag = Ev("lspInput") ->
                 IF TypeOf(msg.input) # "object" \/ ~MsgTruthy(msg)
                   THEN "badMessage"
                 ELSE IF lspIsNull THEN "ignored" ELSE "lspWrite"
            [] OTHER -> "badMessage"

\* receive() without the tearingDown check
receive_unguarded(flag, raw, termIsNull, lspIsNull) ==
  dispatch(raw, termIsNull, lspIsNull)

\* lines 199-203, then the switch
receive(flag, raw, termIsNull, lspIsNull) ==
  IF flag THEN "return" ELSE dispatch(raw, termIsNull, lspIsNull)

\* the transport emits "message": ws calls receive(event)
Deliver(f) ==
  /\ Idle
  /\ subscribed
  /\ ~wsClosed
  /\ msgCount < msgBudget
  /\ msgCount' = msgCount + 1
  /\ inbox' = <<f>>
  /\ UNCHANGED <<config, setupPc, subscribed, tearingDown, uidInfo, td,
                 handlers, term, procs, daemon, lsp, micro, lastSent, mainFile,
                 dotGhci, wsClosed, msgBudget, wsErrored, leases,
                 cleanupIssued, releaseCalls, wsTerminated,
                 termWrites, lspWrites, earlyReturns, failedFrames>>

\* receive(event) up to its first await
OnMessage(fails) ==
  /\ inbox # <<>>
  /\ inbox' = <<>>
  /\ LET f == Head(inbox)
         what == receive(tearingDown, f, term = 0, lsp = "null")
     IN CASE what = "return" ->
               /\ earlyReturns' = earlyReturns \cup {"receive"}
               /\ UNCHANGED <<termWrites, lspWrites, handlers, term, procs,
                              tearingDown, td, lastSent>>
          [] what = "termWrite" ->
               /\ termWrites' = termWrites + 1
               /\ UNCHANGED <<lspWrites, handlers, term, procs, tearingDown,
                              td, lastSent, earlyReturns>>
          [] what = "lspWrite" ->
               /\ lspWrites' = lspWrites + 1
               /\ UNCHANGED <<termWrites, handlers, term, procs, tearingDown,
                              td, lastSent, earlyReturns>>
          [] what = "runCode" ->
               /\ RunCodeBegin(msgCount, f.val.code, fails)
               /\ UNCHANGED <<termWrites, lspWrites>>
          [] OTHER ->
               UNCHANGED <<termWrites, lspWrites, handlers, term, procs,
                           tearingDown, td, lastSent, earlyReturns>>
  /\ UNCHANGED <<config, setupPc, subscribed, uidInfo, daemon, lsp, micro,
                 mainFile, dotGhci, wsClosed, msgCount, msgBudget, wsErrored,
                 leases, cleanupIssued, releaseCalls, wsTerminated,
                 failedFrames>>

\* ------------------------------------------------- transport and processes
\* the variables an event handler that only sends or tears down leaves alone
EventFrame ==
  UNCHANGED <<config, setupPc, subscribed, uidInfo, handlers, term, procs,
              micro, mainFile, dotGhci, msgCount, msgBudget, leases,
              cleanupIssued, releaseCalls, wsTerminated, termWrites,
              lspWrites, inbox>>

\* The transport emits "close".  The listener of lines 157-159 exists only
\* once setup() has reached line 157.
TransportClose ==
  /\ Idle
  /\ ~wsClosed
  /\ wsClosed' = TRUE
  /\ IF subscribed THEN Commit(teardown(This))
     ELSE UNCHANGED <<tearingDown, td, lastSent, earlyReturns>>
  /\ UNCHANGED <<daemon, lsp, wsErrored, failedFrames>>
  /\ EventFrame

\* The transport emits "error" (listener of lines 160-163).
TransportError ==
  /\ Idle
  /\ ~wsClosed
  /\ ~wsErrored
  /\ wsErrored' = TRUE
  /\ IF subscribed THEN Commit(teardown(This))
     ELSE UNCHANGED <<tearingDown, td, lastSent, earlyReturns>>
  /\ UNCHANGED <<daemon, lsp, wsClosed, failedFrames>>
  /\ EventFrame

\* a "data" event of terminal p (lines 331-337)
TermData(p, fails) ==
  /\ Idle
  /\ IF procs[p].live THEN Commit(send(This, TerminalOutput(p), fails))
     ELSE UNCHANGED <<tearingDown, td, lastSent, earlyReturns>>
  /\ UNCHANGED <<daemon, lsp, wsErrored, wsClosed, failedFrames>>
  /\ EventFrame

\* a "data" event of the daemon's stdout or stderr (lines 100-106)
DaemonData(fails) ==
  /\ Idle
  /\ daemon = "up"
  /\ Commit(send(This, ServiceLog("daemon"), fails))
  /\ UNCHANGED <<daemon, lsp, wsErrored, wsClosed, failedFrames>>
  /\ EventFrame

\* The daemon emits "exit" or "error".  Lines 107-120 are inside the loop
\* over [stdout, stderr], so each listener is registered twice.
DaemonExit(fails1, fails2) ==
  /\ Idle
  /\ daemon = "up"
  /\ daemon' = "exited"
  /\ LET first == send(This, ServiceFailed("daemon"), fails1)
     IN /\ Commit(send(first, ServiceFailed("daemon"), fails2))
        /\ failedFrames' = [failedFrames EXCEPT !.daemon =
             @ + Handed(This, fails1) + Handed(first, fails2)]
  /\ UNCHANGED <<lsp, wsErrored, wsClosed>>
  /\ EventFrame

\* a message read from the language server (lines 134-136) or a "data"
\* event on its stderr (lines 137-143)
LspData(frame, fails) ==
  /\ Idle
  /\ lsp = "up"
  /\ Commit(send(This, frame, fails))
  /\ UNCHANGED <<daemon, lsp, wsErrored, wsClosed, failedFrames>>
  /\ EventFrame

\* the language server emits "exit" or "error" (lines 144-153)
LspExit(fails) ==
  /\ Idle
  /\ lsp = "up"
  /\ lsp' = "exited"
  /\ Commit(send(This, ServiceFailed("lsp"), fails))
  /\ failedFrames' = [failedFrames EXCEPT !.lsp = @ + Handed(This, fails)]
  /\ UNCHANGED <<daemon, wsErrored, wsClosed>>
  /\ EventFrame

\* ------------------------------------------------------------ specification
\* Whether ws.send may throw: only on a socket that is no longer open, and
\* then depending on the version of ws.
Fails == IF wsClosed \/ wsErrored THEN BOOLEAN ELSE {FALSE}

Next ==
  \/ \E ok \in BOOLEAN, fails \in Fails : SetupBorrowDone(ok, fails)
  \/ \E ok \in BOOLEAN, fails \in Fails : SetupPrivilegedSetupDone(ok, fails)
  \/ \E fails \in Fails : MicroSetupResume(fails)
  \/ \E ok \in BOOLEAN, fails \in Fails : SetupLspSetupDone(ok, fails)
  \/ \E h \in HandlerIds : \E ok \in BOOLEAN, fails \in Fails :
       RunCodeMkdirDone(h, ok, fails)
  \/ \E h \in HandlerIds : \E ok, spawnOk \in BOOLEAN, fails \in Fails :
       RunCodeWriteDone(h, ok, spawnOk, fails)
  \/ \E h \in HandlerIds : \E ok, spawnOk \in BOOLEAN, fails \in Fails :
       RunCodeGhciDone(h, ok, spawnOk, fails)
  \/ \E fails \in Fails : MicroSendError(fails)
  \/ \E f \in InboundFrames : Deliver(f)
  \/ \E fails \in Fails : OnMessage(fails)
  \/ TransportClose
  \/ TransportError
  \/ \E p \in 1..Len(procs) : \E fails \in Fails : TermData(p, fails)
  \/ \E fails \in Fails : DaemonData(fails)
  \/ \E fails1, fails2 \in Fails : DaemonExit(fails1, fails2)
  \/ \E frame \in {LspOutput, ServiceLog("lsp")} : \E fails \in Fails :
       LspData(frame, fails)
  \/ \E fails \in Fails : LspExit(fails)
  \/ TeardownGraceElapsed
  \/ \E ok \in BOOLEAN : TeardownCleanupDone(ok)
  \/ TeardownReleaseDone

Spec == Init /\ [][Next]_vars

\* The same session with room for two "message" events, so that two
\* receive() invocations can be in progress at once.
InitTwo == InitWith(Langs, MaxOverlap)

SpecTwo == InitTwo /\ [][Next]_vars

\* ------------------------------------------------------------------ claims
\* every teardown() invocation has ended: none is suspended at an await
TeardownOver ==
  tearingDown /\ td.grace = 0 /\ td.cleanup = 0 /\ td.release = 0

\* C1: whatever teardown triggers fire, and in whatever order, the
\* privileged cleanup command is issued at most once, the release of the
\* leased identity is invoked at most once and the transport is closed at
\* most once.
C1_ReleaseSequenceAtMostOnce ==
  cleanupIssued <= 1 /\ releaseCalls <= 1 /\ wsTerminated <= 1

\* teardown() was invoked again after it had begun, and the one release
\* sequence has run to its end
C1_Witness ==
  /\ "teardown" \in earlyReturns
  /\ cleanupIssued = 1 /\ releaseCalls = 1 /\ wsTerminated = 1

\* C2: once teardown has been triggered and has ended, a lease that was
\* granted has been followed by exactly one invocation of its release, also
\* when the cleanup command of teardown failed.
C2_LeaseReleasedOnce ==
  (TeardownOver /\ leases = 1) => releaseCalls = 1

\* C3: every terminalOutput frame handed to the transport comes from the
\* process that occupies the terminal slot at that moment: no output of an
\* earlier terminal process is sent once a Run-Code request has replaced it.
C3_OnlyCurrentTerminalForwarded ==
  (lastSent.event = "terminalOutput" /\ lastSent.service = "")
    => lastSent.proc = lastSent.slot

\* C4: the session subscribes to inbound messages only if the lease, the
\* privileged setup command and the initial code deployment all succeeded.
C4_ReadyOnlyAfterSuccessfulSetup ==
  subscribed => (uidInfo /\ handlers[0].outcome = "ok")

\* C5: when setup has failed, the teardown that follows runs to the end of
\* the release sequence: once it has ended the transport has been closed.
C5_FailedSetupClosesTransport ==
  (setupPc = "failed" /\ TeardownOver) => wsTerminated = 1

\* C6: when setup has failed and its handler has run out, the last frame
\* handed to the transport is the diagnostic terminalOutput frame.
C6_FailedSetupSendsDiagnostic ==
  (setupPc = "failed" /\ Idle)
    => (lastSent.event = "terminalOutput" /\ lastSent.service = "error")

\* C7: a transport close or transport error, in any session state, has
\* triggered teardown.
C7_CloseOrErrorTearsDown ==
  (wsClosed \/ wsErrored) => tearingDown

\* what a "message" event can act on
Effects ==
  <<termWrites, lspWrites, handlers, term, procs, lastSent, tearingDown, td>>

\* C8: a "message" event dispatched while tearingDown is set writes nothing
\* to the terminal or the language server, starts no Run-Code transition
\* and sends no frame.
C8_MessageAfterTeardownIgnored ==
  [][(inbox # <<>> /\ tearingDown) => UNCHANGED Effects]_vars

\* receive() has returned on this.tearingDown
C8_Witness ==
  "receive" \in earlyReturns /\ msgCount > 0 /\ inbox = <<>>

\* C9: no frame is handed to the transport while tearingDown is set.
C9_NoSendAfterTeardown == ~lastSent.td

\* send() has returned on this.tearingDown: an outbound event was dropped
C9_Witness == "send" \in earlyReturns /\ tearingDown

\* the inbound frames the message protocol calls malformed
Malformed(f) ==
  \/ ~f.parses
  \/ f.val.t = "null"
  \/ f.val.event \notin {Ev("terminalInput"), Ev("runCode"), Ev("lspInput")}
  \/ f.val.event = Ev("terminalInput") /\ f.val.input.t # "string"
  \/ f.val.event = Ev("runCode") /\ f.val.code.t # "string"
  \/ f.val.event = Ev("lspInput") /\ f.val.input.t # "object"

\* C10: a malformed inbound frame sends no frame, writes nothing to the
\* terminal or the language server, starts no Run-Code transition and does
\* not tear the session down.
C10_MalformedFrameOnlyLogged ==
  [][(inbox # <<>> /\ Malformed(Head(inbox))) => UNCHANGED Effects]_vars

\* C11: an exit or spawn error of the daemon produces at most one
\* serviceFailed frame with service "daemon", and an exit of the language
\* server at most one with service "lsp": the event is never sent twice for
\* the same exit.
C11_ServiceFailedOnce ==
  failedFrames.daemon <= 1 /\ failedFrames.lsp <= 1

\* the transport is open: ws.send does not throw
TransportOpen == ~wsClosed /\ ~wsErrored

\* C12: when a step of a Run-Code transition started by a client frame
\* fails (mkdir, file write, .ghci hook, terminal spawn) while the transport
\* is open and the session is not tearing down, the handler sends
\* terminalClear and then the diagnostic terminalOutput frame, the teardown
\* flag stays false and the message listener stays registered.
C12_RunCodeFailureReported ==
  [][/\ \A h \in 1..msgBudget :
          ( /\ handlers[h].pc \in {"mkdir", "write", "ghci"}
            /\ handlers'[h].outcome = "failed"
            /\ ~tearingDown /\ TransportOpen )
          => ( /\ ~tearingDown' /\ subscribed'
               /\ lastSent'.event = "terminalClear"
               /\ micro' # <<>> /\ Head(micro') = "sendError" )
     /\ ( /\ micro # <<>> /\ Head(micro) = "sendError"
          /\ ~tearingDown /\ TransportOpen )
          => ( /\ ~tearingDown' /\ subscribed' = subscribed
               /\ lastSent'.event = "terminalOutput"
               /\ lastSent'.service = "error" )]_vars

\* the transition of a runCode frame has failed and its diagnostic is the
\* last frame sent; the session is not tearing down and still listens on
\* an open transport
C12_Witness ==
  /\ Idle /\ ~tearingDown /\ subscribed /\ TransportOpen
  /\ handlers[1].outcome = "failed"
  /\ lastSent.event = "terminalOutput" /\ lastSent.service = "error"
  /\ lastSent.during = 1

\* C13: two Run-Code requests take effect in arrival order: once the
\* handlers of the first and of the second request have both finished, the
\* terminal slot holds the process started for the second request and the
\* entry-point file holds the code of the second request.
C13_RunCodeInArrivalOrder ==
  ( /\ Idle /\ ~tearingDown
    /\ handlers[1].outcome = "ok"
    /\ msgBudget >= 2 /\ handlers[msgBudget].outcome = "ok" )
  => ( /\ term # 0 /\ procs[term].by = msgBudget
       /\ mainFile.by = msgBudget )

\* C14: at most one terminal process has liveness true, and it is the one
\* in the terminal slot; every other terminal process the session started
\* has been sent the termination signal and has liveness false.
C14_AtMostOneLiveTerminal ==
  \A p \in 1..Len(procs) :
    IF p = term THEN procs[p].live
    ELSE ~procs[p].live /\ procs[p].killed

\* the command line the resolution rule prescribes, by whether the client
\* supplied code
ResolutionRule(cfg, supplied) ==
  IF supplied THEN (IF cfg.compile THEN "compileRun" ELSE "run")
  ELSE IF cfg.repl THEN "repl" ELSE "echo"

\* C16: a Run-Code transition started by a runCode frame, whose code is a
\* string (the empty string included), resolves the command line to the
\* run command, or to compile-then-run when the language has a compile
\* step; the transition of setup, without code, resolves it to the REPL
\* command if the language has one and else to the no-op message command.
C16_CmdlineResolution ==
  [][/\ ( /\ inbox # <<>>
          /\ receive(tearingDown, Head(inbox), term = 0, lsp = "null")
               = "runCode" )
          => handlers'[msgCount].cmdline = ResolutionRule(config, TRUE)
     /\ (setupPc = "privilegedSetup" /\ setupPc' = "runCode")
          => handlers'[0].cmdline = ResolutionRule(config, FALSE)]_vars

\* C17: a Run-Code transition begins by signalling the previous terminal,
\* marking it dead and emptying the slot, and by sending terminalClear,
\* before anything is written or spawned; the terminal is spawned only
\* after the code has been written, and is recorded in the slot with
\* liveness true; hence every terminalOutput frame of a process follows the
\* terminalClear of the request that started it.
C17_RunCodeStepOrder ==
  /\ [](( lastSent.event = "terminalOutput" /\ lastSent.service = "" )
          => procs[lastSent.proc].cleared)
  /\ [][\A h \in HandlerIds :
          /\ (handlers[h].pc = "idle" /\ handlers'[h].pc # "idle")
               => ( /\ term' = 0
                    /\ term # 0
                         => ~procs'[term].live /\ procs'[term].killed
                    /\ Len(procs') = Len(procs) /\ mainFile' = mainFile
                    /\ (~tearingDown /\ TransportOpen)
                         => ( /\ lastSent'.event = "terminalClear"
                              /\ handlers'[h].cleared ) )
          /\ (handlers[h].pc # "ghci" /\ handlers'[h].pc = "ghci")
               => ( /\ handlers[h].pc = "write"
                    /\ mainFile' = [by |-> h, code |-> handlers[h].code] )
          /\ (Len(procs') > Len(procs) /\ procs'[Len(procs')].by = h)
               => ( /\ \/ handlers[h].pc = "ghci"
                       \/ /\ handlers[h].pc = "write"
                          /\ mainFile' =
                               [by |-> h, code |-> handlers[h].code]
                    /\ term' = Len(procs') /\ procs'[term'].live
                    /\ lastSent' = lastSent )]_vars

\* a process started for a runCode frame has replaced the terminal of
\* setup, which was signalled, and its output is being forwarded
C17_Witness ==
  /\ lastSent.event = "terminalOutput" /\ lastSent.service = ""
  /\ procs[lastSent.proc].by = 1 /\ procs[lastSent.proc].cleared
  /\ procs[1].by = 0 /\ procs[1].killed /\ ~procs[1].live
  /\ mainFile.by = 1

\* C18: teardown runs in a fixed order: the cleanup command is issued only
\* when the grace wait is over, the identity is released only when the
\* cleanup command has ended, the transport is closed only when the
\* release has ended; a close or error of the transport during the grace
\* wait leaves the wait and the rest of the sequence as they are.
C18_TeardownStepOrder ==
  /\ [](cleanupIssued > 0 => td.grace = 0)
  /\ [](releaseCalls > 0 => (cleanupIssued > 0 /\ td.cleanup = 0))
  /\ [](wsTerminated > 0 => (releaseCalls > 0 /\ td.release = 0))
  /\ [][( /\ tearingDown /\ td.grace > 0
          /\ (wsClosed' # wsClosed \/ wsErrored' # wsErrored) )
        => UNCHANGED <<td, cleanupIssued, releaseCalls, wsTerminated>>]_vars

\* teardown was triggered by a transport error and again by the close of
\* the transport; the second invocation returned at once, and the first has
\* passed the grace wait and the cleanup command and is awaiting the release
C18_Witness ==
  /\ subscribed /\ wsErrored /\ wsClosed
  /\ "teardown" \in earlyReturns
  /\ td = [grace |-> 0, cleanup |-> 0, release |-> 1]
  /\ cleanupIssued = 1 /\ releaseCalls = 1 /\ wsTerminated = 0

\* C19: no step of a Run-Code transition changes the daemon slot or the
\* language-server slot; each of the two is filled at most once, from
\* empty, by setup() after its own Run-Code transition.
C19_ServicesStartedOnceBySetup ==
  [][/\ ( \/ handlers' # handlers
          \/ micro # <<>> /\ Head(micro) = "sendError" )
          => (daemon' = daemon /\ lsp' = lsp)
     /\ (daemon' = "up" /\ daemon # "up")
          => (daemon = "null" /\ setupPc = "runCode")
     /\ (lsp' = "up" /\ lsp # "up")
          => (lsp = "null" /\ setupPc \in {"runCode", "lspSetup"})]_vars

\* a Run-Code transition started by a client frame has run to its end,
\* replacing the terminal, beside the daemon that setup started
C19_Witness ==
  /\ daemon = "up"
  /\ handlers[1].outcome = "ok"
  /\ term # 0 /\ procs[term].by = 1

\* A step in which neither setup() nor a runCode() invocation goes on: no
\* terminal, daemon or language server is spawned and no deploy command
\* (file write, .ghci hook, lspSetup) is handed to run().
NoFurtherStep ==
  /\ Len(procs') = Len(procs)
  /\ daemon' = "up" => daemon = "up"
  /\ lsp' = "up" => lsp = "up"
  /\ setupPc' = "lspSetup" => setupPc = "lspSetup"
  /\ \A h \in HandlerIds :
       handlers'[h].pc \in {"write", "ghci"}
         => handlers'[h].pc = handlers[h].pc

\* C15: once the teardown flag is set, a setup() or runCode() that was
\* suspended at an await performs no further step when it resumes: it
\* spawns no terminal, daemon or language server and issues no further
\* privileged command.
C15_NoStepAfterTeardownFlag ==
  [][tearingDown => NoFurtherStep]_vars

\* C20: once the leased identity has been released, the session issues no
\* privileged command and spawns no process under it, whichever way
\* teardown interleaves with a setup() or runCode() still in progress.
C20_NoPrivilegedUseAfterRelease ==
  [][releaseCalls > 0 => NoFurtherStep]_vars

====
